---- MODULE Spec2Model ----
(***************************************************************************)
(* A model of kilroy_face_reddit/face.py: the RedditFace operations post,  *)
(* score, scrap/_fetch and the lifecycle operations cleanup, reset, save   *)
(* and load, running as concurrent coroutines over one State that is       *)
(* guarded by a reader/writer lock; and the identifier <-> native id       *)
(* conversion used by _fetch and score.                                    *)
(***************************************************************************)
EXTENDS Integers, Sequences, FiniteSets, TLC

\* ------------------------------------------------------------------ bounds
\* Longest sequence the scraper strategy hands to _fetch.
MaxLen == 2
\* Largest limit passed to scrap (besides "no limit").
MaxLimit == 2
\* Most coroutines (callers of post, score, scrap, lifecycle operations) running
\* concurrently in one execution.
MaxCallers == 2
\* Longest native id (number of base-36 characters) that is converted.
MaxIdLen == 2
\* Most slots whose configuration, manifest keys and saved instance vary in one
\* execution of build / save / load (the other slots keep the defaults).
MaxVaried == 2
\* Largest identifier of the densely enumerated low range (the identifiers
\* 0..MaxSmallUuid are all converted; 36 * 36 = 1296 is the first one with three
\* base-36 digits).
MaxSmallUuid == 1300

\* --------------------------------------------------------------- processes
Readers == {"post", "score", "scrap"}
Writers == {"w1", "w2"}
Procs == Readers \cup Writers

\* The six slots of State, in the order cleanup() and _save_state visit them.
SlotOrder == <<"processor", "poster", "scorer", "score_modifier", "scraper", "restriction">>
Slots == {SlotOrder[i] : i \in 1..Len(SlotOrder)}

\* The slots whose strategy class is Configurable (has a cleanup capability); the
\* instances of the other slots fail cleanup()'s isinstance test.
Cleanable == {"poster", "scraper", "restriction"}

\* Lifecycle operations a writer can call.
LifeOps == {"cleanup", "reset", "save", "load"}

\* What a remote item does to the per-item step of _fetch:
\*   ok       scores and translates
\*   bad_tr   scores, Post.from_submission / processor.to_external raises
\*   bad_sc   scorer.score raises
\*   bad_mod  score_modifier.modify raises (when a modifier is active)
\*   bad_both scorer.score raises, and translation would raise too
ItemKinds == {"ok", "bad_tr", "bad_sc", "bad_mod", "bad_both"}

VARIABLES
  callers,    \* the coroutines that run in this execution
  pc,         \* pc[p]: where coroutine p stands
  readers,    \* the coroutines holding the read lock
  writer,     \* the coroutine holding the write lock, or "none"
  cfg,        \* Params: [restriction, modifier: BOOLEAN], the optional slots' type is not None
  st,         \* State: [built, restriction, modifier, closed: BOOLEAN, released: SUBSET Slots]
  postCalls,  \* post: the strategy calls made so far, with their outcomes
  postResult, \* post: "none", "ok" or the error raised to the caller
  scoreCalls, \* score: the strategy calls made so far, with their outcomes
  scoreResult,\* score: "none", "ok" or the error raised to the caller
  scoreVal,   \* score: its local `score`, as the calls applied to the item so far
  source,     \* scrap: the items the scraper's sequence has produced so far
  srcDone,    \* scrap: the scraper's sequence raised StopAsyncIteration
  limit,      \* scrap: [some: BOOLEAN, n: Nat], the limit argument
  emitted,    \* scrap: indexes (into source) of the triples handed to the consumer
  scrapResult,\* scrap: "none", "end" (StopAsyncIteration), "closed" or the error raised
  fetchCalls, \* scrap: the scoring calls _fetch has made on the item it last pulled
  fetchVal,   \* scrap: _fetch's local `score`, as the calls applied to the item so far
  scores,     \* scrap: the scores of the triples handed to the consumer
  op,         \* op[w]: the lifecycle operation writer w is running
  slot,       \* slot[w]: how many slots cleanup() of writer w has visited
  nativeId,   \* conversion: the native id (sequence of characters)
  idInt,      \* conversion: UUID.int
  backId,     \* conversion: the native id computed back from idInt
  backInt,    \* conversion: [limbs, valid], the identifier computed back from nativeId
  idpc,       \* conversion: "start", "uuid", "native"; "u_start", "u_native", "u_back"
  scenario,   \* persistence: "build", "save" (save, then load) or "load"
  conf,       \* persistence: Params, [type: slot -> category or None, params: slot -> mapping]
  savable,    \* persistence: the slots whose strategy class is Savable
  live,       \* persistence: the State that is saved
  disk,       \* persistence: [manifest, hasManifest, dirs, writes], the save directory
  locals,     \* persistence: [sd, parts], state_dict and the State fields evaluated so far
  result,     \* persistence: the State _build_default_state / _load_saved_state returned
  calls,      \* persistence: the factory calls made by build / load
  ppc,        \* persistence: position of the build / save / load coroutine
  pstep       \* persistence: how many fields / slots the running step sequence has done

lockVars == <<readers, writer>>
postVars == <<postCalls, postResult>>
scoreVars == <<scoreCalls, scoreResult, scoreVal>>
fetchVars == <<fetchCalls, fetchVal, scores>>
scrapVars == <<source, srcDone, limit, emitted, scrapResult, fetchCalls, fetchVal, scores>>
lifeVars == <<op, slot>>
idVars == <<nativeId, idInt, backId, backInt, idpc>>
persistVars == <<scenario, conf, savable, live, disk, locals, result, calls, ppc, pstep>>
vars == <<callers, pc, readers, writer, cfg, st, postCalls, postResult, scoreCalls,
          scoreResult, scoreVal, source, srcDone, limit, emitted, scrapResult, fetchCalls,
          fetchVal, scores, op, slot,
          nativeId, idInt, backId, backInt, idpc,
          scenario, conf, savable, live, disk, locals, result, calls, ppc, pstep>>

\* ------------------------------------------------------- the State container
\* read_lock(): granted while no writer holds the lock; readers share it.
CanRead == writer = "none"
\* write_lock(): granted while nobody holds the lock.
CanWrite == writer = "none" /\ readers = {}

Call(fn, out) == [fn |-> fn, out |-> out]

\* The State _build_default_state / _load_saved_state return: a fresh client, every
\* required slot built, the optional slots (restriction, score_modifier) present when
\* their resolved category is not None.
BuiltState(restriction, modifier) ==
  [built |-> TRUE, restriction |-> restriction, modifier |-> modifier,
   released |-> {}, closed |-> FALSE]

\* ------------------------------------------------------------------- post
\* post(content) is called: the coroutine reaches `async with read_lock()`.
PostCall ==
  /\ "post" \in callers
  /\ pc["post"] = "idle"
  /\ pc' = [pc EXCEPT !["post"] = "p_lock"]
  /\ UNCHANGED <<lockVars, callers, cfg, st, postVars, scoreVars, scrapVars, lifeVars, idVars, persistVars>>

\* Mutant: post enters its section without waiting for the read lock.
PostAcquireUnlocked ==
  /\ pc["post"] = "p_lock"
  /\ readers' = readers \cup {"post"}
  /\ pc' = [pc EXCEPT !["post"] = "p_internal"]
  /\ UNCHANGED <<writer, callers, cfg, st, postVars, scoreVars, scrapVars, lifeVars, idVars, persistVars>>

PostAcquire ==
  /\ pc["post"] = "p_lock"
  /\ CanRead
  /\ readers' = readers \cup {"post"}
  /\ pc' = [pc EXCEPT !["post"] = "p_internal"]
  /\ UNCHANGED <<writer, callers, cfg, st, postVars, scoreVars, scrapVars, lifeVars, idVars, persistVars>>

\* Mutant: the restriction is never consulted.
PostInternalNextSkipsCheck(restricted) == "p_poster"

\* After to_internal returned: `if state.restriction is not None:` the check,
\* otherwise the poster.
PostInternalNext(restricted) == IF restricted THEN "p_check" ELSE "p_poster"

\* data = await state.processor.to_internal(content); a raise leaves the
\* `async with`, which releases the lock.
PostToInternal ==
  /\ pc["post"] = "p_internal"
  /\ \E out \in {"ok", "raise"} :
       /\ postCalls' = Append(postCalls, Call("to_internal", out))
       /\ IF out = "ok"
            THEN /\ pc' = [pc EXCEPT !["post"] = PostInternalNext(st.restriction)]
                 /\ UNCHANGED <<readers, postResult>>
            ELSE /\ pc' = [pc EXCEPT !["post"] = "p_done"]
                 /\ readers' = readers \ {"post"}
                 /\ postResult' = "UnsupportedContent"
  /\ UNCHANGED <<writer, callers, cfg, st, scoreVars, scrapVars, lifeVars, idVars, persistVars>>

\* Mutant: the result of the check is ignored (only its raise ends the call).
PostCheckNextIgnored(out) ==
  IF out = "raise" THEN "p_done" ELSE "p_poster"

\* if not await state.restriction.check(data): raise ValueError(...)
PostCheckNext(out) ==
  IF out = "true" THEN "p_poster" ELSE "p_done"

PostCheck ==
  /\ pc["post"] = "p_check"
  /\ \E out \in {"true", "false", "raise"} :
       /\ postCalls' = Append(postCalls, Call("check", out))
       /\ pc' = [pc EXCEPT !["post"] = PostCheckNext(out)]
       /\ IF PostCheckNext(out) = "p_poster"
            THEN UNCHANGED <<readers, postResult>>
            ELSE /\ readers' = readers \ {"post"}
                 /\ postResult' = IF out = "false" THEN "Rejected" ELSE "RemoteFailure"
  /\ UNCHANGED <<writer, callers, cfg, st, scoreVars, scrapVars, lifeVars, idVars, persistVars>>

\* post = await state.poster.post(state.subreddit, data); the section ends.
PostPoster ==
  /\ pc["post"] = "p_poster"
  /\ \E out \in {"ok", "raise"} :
       /\ postCalls' = Append(postCalls, Call("post", out))
       /\ postResult' = IF out = "ok" THEN "ok" ELSE "RemoteFailure"
  /\ readers' = readers \ {"post"}
  /\ pc' = [pc EXCEPT !["post"] = "p_done"]
  /\ UNCHANGED <<writer, callers, cfg, st, scoreVars, scrapVars, lifeVars, idVars, persistVars>>

\* ------------------------------------------------------------------ score
ScoreCall ==
  /\ "score" \in callers
  /\ pc["score"] = "idle"
  /\ pc' = [pc EXCEPT !["score"] = "s_lock"]
  /\ UNCHANGED <<lockVars, callers, cfg, st, postVars, scoreVars, scrapVars, lifeVars, idVars, persistVars>>

ScoreAcquire ==
  /\ pc["score"] = "s_lock"
  /\ CanRead
  /\ readers' = readers \cup {"score"}
  /\ pc' = [pc EXCEPT !["score"] = "s_submission"]
  /\ UNCHANGED <<writer, callers, cfg, st, postVars, scoreVars, scrapVars, lifeVars, idVars, persistVars>>

\* A score as the calls that produced it, applied in order to the remote item:
\* <<"score">> is the scorer's raw result, <<"score", "modify">> that result
\* passed through the score-modifier.
\* The value of `score` after fn has returned: scorer.score(submission) gives a
\* new raw score, score_modifier.modify(submission, score) one made from the
\* score it was given; any other call leaves `score` alone.
Returned(fn, score) ==
  CASE fn = "score" -> <<"score">>
    [] fn = "modify" -> Append(score, "modify")
    [] OTHER -> score

\* Mutant: the lock is released by hand after the last call, so a raise leaves
\* the section with the read lock still held.
ScoreStepLeaksOnRaise(at, fn, next) ==
  /\ pc["score"] = at
  /\ \E out \in {"ok", "raise"} :
       /\ scoreCalls' = Append(scoreCalls, Call(fn, out))
       /\ scoreVal' = IF out = "ok" THEN Returned(fn, scoreVal) ELSE scoreVal
       /\ IF out = "ok" /\ next # "s_done"
            THEN /\ pc' = [pc EXCEPT !["score"] = next]
                 /\ UNCHANGED <<readers, scoreResult>>
            ELSE /\ pc' = [pc EXCEPT !["score"] = "s_done"]
                 /\ readers' = IF out = "ok" THEN readers \ {"score"} ELSE readers
                 /\ scoreResult' = IF out = "ok" THEN "ok" ELSE "RemoteFailure"
  /\ UNCHANGED <<writer, callers, cfg, st, postVars, scrapVars, lifeVars, idVars, persistVars>>

\* One awaited call of score's locked section: fn raises (the section is left, the
\* lock released, the error surfaces) or returns (on to `next`; "s_done" ends it).
ScoreStep(at, fn, next) ==
  /\ pc["score"] = at
  /\ \E out \in {"ok", "raise"} :
       /\ scoreCalls' = Append(scoreCalls, Call(fn, out))
       /\ scoreVal' = IF out = "ok" THEN Returned(fn, scoreVal) ELSE scoreVal
       /\ IF out = "ok" /\ next # "s_done"
            THEN /\ pc' = [pc EXCEPT !["score"] = next]
                 /\ UNCHANGED <<readers, scoreResult>>
            ELSE /\ pc' = [pc EXCEPT !["score"] = "s_done"]
                 /\ readers' = readers \ {"score"}
                 /\ scoreResult' = IF out = "ok" THEN "ok" ELSE "RemoteFailure"
  /\ UNCHANGED <<writer, callers, cfg, st, postVars, scrapVars, lifeVars, idVars, persistVars>>

\* submission = await state.client.submission(id=...)
ScoreSubmission == ScoreStep("s_submission", "submission", "s_scorer")
\* score = await state.scorer.score(submission)
ScoreScorer ==
  ScoreStep("s_scorer", "score", IF st.modifier THEN "s_modifier" ELSE "s_done")
\* score = await state.score_modifier.modify(submission, score)
ScoreModifier == ScoreStep("s_modifier", "modify", "s_done")

\* ------------------------------------------------------------------ scrap
Limits == {[some |-> FALSE, n |-> 0]} \cup {[some |-> TRUE, n |-> k] : k \in 0..MaxLimit}

\* The consumer asks scrap(limit, before, after) for its first item: the generator
\* body starts and reaches `async with read_lock()`.
ScrapCall ==
  /\ "scrap" \in callers
  /\ pc["scrap"] = "idle"
  /\ \E lim \in Limits : limit' = lim
  /\ pc' = [pc EXCEPT !["scrap"] = "x_lock"]
  /\ UNCHANGED <<lockVars, callers, cfg, st, postVars, scoreVars, fetchVars, source, srcDone,
                 emitted, scrapResult, lifeVars, idVars, persistVars>>

ScrapAcquire ==
  /\ pc["scrap"] = "x_lock"
  /\ CanRead
  /\ readers' = readers \cup {"scrap"}
  /\ pc' = [pc EXCEPT !["scrap"] = "x_scraper"]
  /\ UNCHANGED <<writer, callers, cfg, st, postVars, scoreVars, scrapVars, lifeVars, idVars, persistVars>>

\* stream.take(posts, limit) ends at once, without pulling, when limit <= 0.
TakeEndsAtOnce(lim) == lim.some /\ lim.n <= 0

\* submissions = state.scraper.scrap(state.client, before, after); the lock is
\* released; posts = take(_fetch(submissions), limit) or iterate(_fetch(...)); the
\* stream is entered and _fetch reaches its first `async with read_lock()`.
ScrapScraper ==
  /\ pc["scrap"] = "x_scraper"
  /\ readers' = readers \ {"scrap"}
  /\ \/ /\ IF TakeEndsAtOnce(limit)
             THEN /\ pc' = [pc EXCEPT !["scrap"] = "x_done"]
                  /\ scrapResult' = "end"
             ELSE /\ pc' = [pc EXCEPT !["scrap"] = "f_lock"]
                  /\ UNCHANGED scrapResult
     \/ /\ pc' = [pc EXCEPT !["scrap"] = "x_done"]
        /\ scrapResult' = "RemoteFailure"
  /\ UNCHANGED <<writer, callers, cfg, st, postVars, scoreVars, fetchVars, source, srcDone,
                 limit, emitted, lifeVars, idVars, persistVars>>

\* _fetch: `async with self.state.read_lock() as state` at the top of the loop.
FetchAcquire ==
  /\ pc["scrap"] = "f_lock"
  /\ CanRead
  /\ readers' = readers \cup {"scrap"}
  /\ pc' = [pc EXCEPT !["scrap"] = "f_next"]
  /\ UNCHANGED <<writer, callers, cfg, st, postVars, scoreVars, scrapVars, lifeVars, idVars, persistVars>>

\* submission = await anext(submissions): the scraper's sequence produces its next
\* item (of any kind; the sequence is lazy and at most MaxLen long), or raises
\* StopAsyncIteration, which breaks out of the loop (end of stream), or raises
\* another error, which propagates. Leaving the `async with` releases the lock.
FetchNext ==
  /\ pc["scrap"] = "f_next"
  /\ \/ /\ Len(source) < MaxLen
        /\ \E kind \in ItemKinds : source' = Append(source, kind)
        /\ fetchCalls' = <<>>
        /\ pc' = [pc EXCEPT !["scrap"] = "f_scorer"]
        /\ UNCHANGED <<readers, scrapResult, srcDone>>
     \/ /\ readers' = readers \ {"scrap"}
        /\ scrapResult' = "end"
        /\ srcDone' = TRUE
        /\ pc' = [pc EXCEPT !["scrap"] = "x_done"]
        /\ UNCHANGED <<source, fetchCalls>>
     \/ /\ readers' = readers \ {"scrap"}
        /\ scrapResult' = "RemoteFailure"
        /\ pc' = [pc EXCEPT !["scrap"] = "x_done"]
        /\ UNCHANGED <<source, srcDone, fetchCalls>>
  /\ UNCHANGED <<writer, callers, cfg, st, postVars, scoreVars, fetchVal, scores, limit, emitted, lifeVars,
                 idVars, persistVars>>

ScorerRaises(kind) == kind \in {"bad_sc", "bad_both"}
ModifierRaises(kind) == kind = "bad_mod"
TranslationRaises(kind) == kind \in {"bad_tr", "bad_both"}

\* Mutant: a scoring failure is swallowed like a translation failure (the scoring
\* calls moved inside the try block).
FetchAbortSwallowed ==
  /\ readers' = readers \ {"scrap"}
  /\ pc' = [pc EXCEPT !["scrap"] = "f_lock"]
  /\ UNCHANGED <<emitted, scrapResult>>

\* A scoring call of the per-item step raised: nothing catches it, so it leaves the
\* `async with` (lock released), _fetch, the stream operator and scrap.
FetchAbort ==
  /\ readers' = readers \ {"scrap"}
  /\ scrapResult' = "ScoringFailure"
  /\ pc' = [pc EXCEPT !["scrap"] = "x_done"]
  /\ UNCHANGED emitted

\* Mutant: _fetch never consults the score-modifier.
FetchAfterScorerNoModifier(active) == "f_translate"

\* `if state.score_modifier is not None:` the modifier, otherwise on to the
\* translation.
FetchAfterScorer(active) == IF active THEN "f_modifier" ELSE "f_translate"

\* score = await state.scorer.score(submission)
FetchScorer ==
  /\ pc["scrap"] = "f_scorer"
  /\ IF ScorerRaises(source[Len(source)])
       THEN /\ FetchAbort
            /\ fetchCalls' = Append(fetchCalls, Call("score", "raise"))
            /\ UNCHANGED fetchVal
       ELSE /\ pc' = [pc EXCEPT !["scrap"] = FetchAfterScorer(st.modifier)]
            /\ fetchCalls' = Append(fetchCalls, Call("score", "ok"))
            /\ fetchVal' = Returned("score", fetchVal)
            /\ UNCHANGED <<readers, scrapResult, emitted>>
  /\ UNCHANGED <<scores, writer, callers, cfg, st, postVars, scoreVars, source, srcDone, limit,
                 lifeVars, idVars, persistVars>>

\* score = await state.score_modifier.modify(submission, score)
FetchModifier ==
  /\ pc["scrap"] = "f_modifier"
  /\ IF ModifierRaises(source[Len(source)])
       THEN /\ FetchAbort
            /\ fetchCalls' = Append(fetchCalls, Call("modify", "raise"))
            /\ UNCHANGED fetchVal
       ELSE /\ pc' = [pc EXCEPT !["scrap"] = "f_translate"]
            /\ fetchCalls' = Append(fetchCalls, Call("modify", "ok"))
            /\ fetchVal' = Returned("modify", fetchVal)
            /\ UNCHANGED <<readers, scrapResult, emitted>>
  /\ UNCHANGED <<scores, writer, callers, cfg, st, postVars, scoreVars, source, srcDone, limit,
                 lifeVars, idVars, persistVars>>

\* Mutant: a translation failure is not caught and ends the stream with an error.
FetchSkipPropagates ==
  /\ readers' = readers \ {"scrap"}
  /\ scrapResult' = "UnsupportedContent"
  /\ pc' = [pc EXCEPT !["scrap"] = "x_done"]
  /\ UNCHANGED emitted

\* Mutant: the failure is caught but the loop turn goes on to the yield (`pass`
\* for `continue`), so the untranslated item is handed over and counted.
FetchSkipYields ==
  /\ emitted' = Append(emitted, Len(source))
  /\ pc' = [pc EXCEPT !["scrap"] = "x_yield"]
  /\ UNCHANGED <<readers, scrapResult>>

\* Mutant: after a failed translation the loop turn starts over on the same item
\* instead of pulling the next one.
FetchSkipRetries ==
  /\ pc' = [pc EXCEPT !["scrap"] = "f_scorer"]
  /\ UNCHANGED <<readers, emitted, scrapResult>>

\* `except Exception: continue`: the item is dropped, the `async with` is left
\* (lock released) and the loop goes to its next turn.
FetchSkip ==
  /\ readers' = readers \ {"scrap"}
  /\ pc' = [pc EXCEPT !["scrap"] = "f_lock"]
  /\ UNCHANGED <<emitted, scrapResult>>

\* `yield post_id, data, score`: the triple goes through the stream operator and
\* scrap's own yield to the consumer. The yield stands inside the `async with`:
\* the generator is suspended with the read lock held.
FetchYield ==
  /\ emitted' = Append(emitted, Len(source))
  /\ pc' = [pc EXCEPT !["scrap"] = "x_yield"]
  /\ UNCHANGED <<readers, scrapResult>>

\* post = await Post.from_submission(submission)
\* data = await state.processor.to_external(post.data)
FetchTranslate ==
  /\ pc["scrap"] = "f_translate"
  /\ IF TranslationRaises(source[Len(source)])
       THEN FetchSkip /\ UNCHANGED scores
       ELSE FetchYield /\ scores' = Append(scores, fetchVal)
  /\ UNCHANGED <<fetchCalls, fetchVal, writer, callers, cfg, st, postVars, scoreVars, source, srcDone, limit,
                 lifeVars, idVars, persistVars>>

\* Mutant: the limit test is off by one.
TakeDoneLate(lim, count) == lim.some /\ count > lim.n

\* stream.take: after handing over item i (0-based), `if i >= n - 1: return`.
TakeDone(lim, count) == lim.some /\ count >= lim.n

\* The consumer asks for the next item. take returns when the limit is reached,
\* which closes _fetch (GeneratorExit at the yield leaves the `async with`);
\* otherwise _fetch resumes after the yield, leaves the `async with` and loops.
ConsumerNext ==
  /\ pc["scrap"] = "x_yield"
  /\ readers' = readers \ {"scrap"}
  /\ IF TakeDone(limit, Len(emitted))
       THEN /\ pc' = [pc EXCEPT !["scrap"] = "x_done"]
            /\ scrapResult' = "end"
       ELSE /\ pc' = [pc EXCEPT !["scrap"] = "f_lock"]
            /\ UNCHANGED scrapResult
  /\ UNCHANGED <<writer, callers, cfg, st, postVars, scoreVars, fetchVars, source, srcDone, limit,
                 emitted, lifeVars, idVars, persistVars>>

\* The consumer closes the stream instead (aclose): GeneratorExit at scrap's yield
\* leaves `async with posts.stream()`, which closes _fetch at its yield.
ConsumerClose ==
  /\ pc["scrap"] = "x_yield"
  /\ readers' = readers \ {"scrap"}
  /\ pc' = [pc EXCEPT !["scrap"] = "x_done"]
  /\ scrapResult' = "closed"
  /\ UNCHANGED <<writer, callers, cfg, st, postVars, scoreVars, fetchVars, source, srcDone, limit,
                 emitted, lifeVars, idVars, persistVars>>

\* -------------------------------------------------------------- lifecycle
\* A lifecycle operation is called: the coroutine reaches its `async with
\* self.state.write_lock()`.
LifeLock(o) ==
  CASE o = "cleanup" -> "c_lock"
    [] o = "reset" -> "r_lock"
    [] o = "save" -> "sv_lock"
    [] o = "load" -> "ld_lock"

LifeCall(w) ==
  /\ w \in callers
  /\ pc[w] = "idle"
  /\ \E o \in LifeOps :
       /\ op' = [op EXCEPT ![w] = o]
       /\ pc' = [pc EXCEPT ![w] = LifeLock(o)]
  /\ UNCHANGED <<lockVars, callers, cfg, st, postVars, scoreVars, scrapVars, slot, idVars, persistVars>>

\* `async with self.state.write_lock() as state`: entered at `at`, going on at `to`.
WriteAcquire(w, at, to) ==
  /\ pc[w] = at
  /\ CanWrite
  /\ writer' = w
  /\ pc' = [pc EXCEPT ![w] = to]
  /\ UNCHANGED <<readers, callers, cfg, st, postVars, scoreVars, scrapVars, lifeVars, idVars, persistVars>>

\* RedditFaceBase.cleanup: the first write-locked section.
CleanupAcquire(w) == WriteAcquire(w, "c_lock", "c_slots")

\* The slot instance exists (the optional slots may hold None).
Present(s) ==
  CASE s = "score_modifier" -> st.modifier
    [] s = "restriction" -> st.restriction
    [] OTHER -> TRUE

\* `if isinstance(state.<slot>, Configurable): await state.<slot>.cleanup()`, one
\* slot per step, in SlotOrder; after the last one the `async with` is left.
CleanupSlot(w) ==
  /\ pc[w] = "c_slots"
  /\ LET s == SlotOrder[slot[w] + 1]
         last == slot[w] + 1 = Len(SlotOrder)
     IN /\ st' = IF Present(s) /\ s \in Cleanable
                   THEN [st EXCEPT !.released = @ \cup {s}]
                   ELSE st
        /\ slot' = [slot EXCEPT ![w] = IF last THEN 0 ELSE @ + 1]
        /\ pc' = [pc EXCEPT ![w] = IF last THEN "c_lock2" ELSE "c_slots"]
        /\ writer' = IF last THEN "none" ELSE writer
  /\ UNCHANGED <<readers, callers, cfg, postVars, scoreVars, scrapVars, op, idVars, persistVars>>

\* RedditFace.cleanup: after super().cleanup() returned, a second write-locked
\* section closes the client.
CleanupAcquire2(w) == WriteAcquire(w, "c_lock2", "c_close")

\* Mutant: closing a client that is already closed fails; the call never returns.
CleanupCloseOnce(w) ==
  /\ pc[w] = "c_close"
  /\ ~st.closed
  /\ st' = [st EXCEPT !.closed = TRUE]
  /\ writer' = "none"
  /\ pc' = [pc EXCEPT ![w] = "w_done"]
  /\ UNCHANGED <<readers, callers, cfg, postVars, scoreVars, scrapVars, lifeVars, idVars, persistVars>>

\* `async with self.state.write_lock() as state: await state.client.close()`
CleanupClose(w) ==
  /\ pc[w] = "c_close"
  /\ st' = [st EXCEPT !.closed = TRUE]
  /\ writer' = "none"
  /\ pc' = [pc EXCEPT ![w] = "w_done"]
  /\ UNCHANGED <<readers, callers, cfg, postVars, scoreVars, scrapVars, lifeVars, idVars, persistVars>>

\* reset_self: under the write lock the current State is discarded and
\* _build_default_state is run again from the configuration.
ResetAcquire(w) == WriteAcquire(w, "r_lock", "r_discard")

ResetDiscard(w) ==
  /\ pc[w] = "r_discard"
  /\ st' = [st EXCEPT !.built = FALSE]
  /\ pc' = [pc EXCEPT ![w] = "r_build"]
  /\ UNCHANGED <<lockVars, callers, cfg, postVars, scoreVars, scrapVars, lifeVars, idVars, persistVars>>

ResetBuild(w) ==
  /\ pc[w] = "r_build"
  /\ st' = BuiltState(cfg.restriction, cfg.modifier)
  /\ writer' = "none"
  /\ pc' = [pc EXCEPT ![w] = "w_done"]
  /\ UNCHANGED <<readers, callers, cfg, postVars, scoreVars, scrapVars, lifeVars, idVars, persistVars>>

\* save_self: _save_state(state, directory) under the write lock.
SaveAcquire(w) == WriteAcquire(w, "sv_lock", "sv_state")

SaveState(w) ==
  /\ pc[w] = "sv_state"
  /\ writer' = "none"
  /\ pc' = [pc EXCEPT ![w] = "w_done"]
  /\ UNCHANGED <<readers, callers, cfg, st, postVars, scoreVars, scrapVars, lifeVars, idVars, persistVars>>

\* load: under the write lock the State is replaced by _load_saved_state's, whose
\* optional slots follow the manifest (any value), not the configuration.
LoadAcquire(w) == WriteAcquire(w, "ld_lock", "ld_discard")

LoadDiscard(w) ==
  /\ pc[w] = "ld_discard"
  /\ st' = [st EXCEPT !.built = FALSE]
  /\ pc' = [pc EXCEPT ![w] = "ld_state"]
  /\ UNCHANGED <<lockVars, callers, cfg, postVars, scoreVars, scrapVars, lifeVars, idVars, persistVars>>

LoadState(w) ==
  /\ pc[w] = "ld_state"
  /\ \E r \in BOOLEAN, m \in BOOLEAN : st' = BuiltState(r, m)
  /\ writer' = "none"
  /\ pc' = [pc EXCEPT ![w] = "w_done"]
  /\ UNCHANGED <<readers, callers, cfg, postVars, scoreVars, scrapVars, lifeVars, idVars, persistVars>>

\* ------------------------------------------------- identifier conversion
\* The characters int(n, 36) reads and base_repr(x, 36) writes, by digit value.
Digits36 == <<"0", "1", "2", "3", "4", "5", "6", "7", "8", "9", "a", "b", "c", "d", "e",
              "f", "g", "h", "i", "j", "k", "l", "m", "n", "o", "p", "q", "r", "s", "t",
              "u", "v", "w", "x", "y", "z">>
UpperDigits == <<"0", "1", "2", "3", "4", "5", "6", "7", "8", "9", "A", "B", "C", "D", "E",
                 "F", "G", "H", "I", "J", "K", "L", "M", "N", "O", "P", "Q", "R", "S", "T",
                 "U", "V", "W", "X", "Y", "Z">>
Base == Len(Digits36)
Chars36 == {Digits36[i] : i \in 1..Base}

\* The value of one character as int(., 36) reads it (either case).
CharValue(c) == (CHOOSE i \in 1..Base : Digits36[i] = c \/ UpperDigits[i] = c) - 1

\* int(n, 36): most significant character first.
RECURSIVE IntBase36(_)
IntBase36(n) ==
  IF n = <<>> THEN 0
  ELSE IntBase36(SubSeq(n, 1, Len(n) - 1)) * Base + CharValue(n[Len(n)])

\* numpy.base_repr(number, 36): `while num: res.append(digits[num % base]);
\* num //= base`, then reversed(res or '0'): upper-case digits, no leading zero.
RECURSIVE BaseReprDigits(_)
BaseReprDigits(num) ==
  IF num = 0 THEN <<>>
  ELSE Append(BaseReprDigits(num \div Base), UpperDigits[(num % Base) + 1])

base_repr(num) == IF num = 0 THEN <<"0">> ELSE BaseReprDigits(num)

\* Mutant: the upper-case digits of base_repr are used as they are.
LowerCharMissing(c) == c

\* str.lower(), character by character.
LowerChar(c) ==
  IF \E i \in 1..Base : UpperDigits[i] = c
    THEN Digits36[CHOOSE i \in 1..Base : UpperDigits[i] = c]
    ELSE c
lower(s) == [i \in 1..Len(s) |-> LowerChar(s[i])]

\* _fetch: post_id = UUID(int=int(submission.id, 36))
identifierOf(n) == IntBase36(n)
\* score: base_repr(id.int, 36).lower()
nativeIdOf(x) == lower(base_repr(x))

NativeIds == UNION {[1..k -> Chars36] : k \in 1..MaxIdLen}

ToIdentifier ==
  /\ idpc = "start"
  /\ idInt' = identifierOf(nativeId)
  /\ idpc' = "uuid"
  /\ UNCHANGED <<pc, lockVars, callers, cfg, st, postVars, scoreVars, scrapVars, lifeVars, persistVars,
                 nativeId, backId, backInt>>

ToNative ==
  /\ idpc = "uuid"
  /\ backId' = nativeIdOf(idInt)
  /\ idpc' = "native"
  /\ UNCHANGED <<pc, lockVars, callers, cfg, st, postVars, scoreVars, scrapVars, lifeVars, persistVars,
                 nativeId, idInt, backInt>>


\* --------------------------------------- identifier conversion, 128 bits wide
\* UUID.int is a 128-bit unsigned integer: here UuidLimbs limbs of 16 bits, the
\* most significant first.
LimbBase == 65536
UuidLimbs == 8
ZeroUuid == [k \in 1..UuidLimbs |-> 0]
MaxUuid == [k \in 1..UuidLimbs |-> LimbBase - 1]

\* The value of the first k limbs of u, modulo 36.
RECURSIVE PrefixRem(_, _)
PrefixRem(u, k) ==
  IF k = 0 THEN 0 ELSE (PrefixRem(u, k - 1) * LimbBase + u[k]) % Base

\* num % base and num //= base of numpy.base_repr, by long division.
ModBase(u) == PrefixRem(u, Len(u))
DivBase(u) == [k \in 1..Len(u) |-> (PrefixRem(u, k - 1) * LimbBase + u[k]) \div Base]

\* numpy.base_repr(id.int, 36) on a 128-bit id.int.
RECURSIVE UuidReprDigits(_)
UuidReprDigits(u) ==
  IF u = ZeroUuid THEN <<>>
  ELSE Append(UuidReprDigits(DivBase(u)), UpperDigits[ModBase(u) + 1])

uuid_base_repr(u) == IF u = ZeroUuid THEN <<"0">> ELSE UuidReprDigits(u)

\* score: base_repr(id.int, 36).lower()
uuidNativeIdOf(u) == lower(uuid_base_repr(u))

\* The carry into limb k when the number u is multiplied by 36 and d is added.
RECURSIVE CarryInto(_, _, _)
CarryInto(u, k, d) ==
  IF k = Len(u) THEN d
  ELSE (u[k + 1] * Base + CarryInto(u, k + 1, d)) \div LimbBase

\* acc * 36 + d, and whether the result still fits in 128 bits.
MulAdd(acc, d) ==
  [limbs |-> [k \in 1..Len(acc.limbs) |->
                (acc.limbs[k] * Base + CarryInto(acc.limbs, k, d)) % LimbBase],
   valid |-> acc.valid /\ CarryInto(acc.limbs, 0, d) = 0]

\* int(n, 36), most significant character first. Python's integer is unbounded;
\* `valid` records whether the value is below 2^128, which UUID(int=...) demands.
RECURSIVE BigInt36(_)
BigInt36(n) ==
  IF n = <<>> THEN [limbs |-> ZeroUuid, valid |-> TRUE]
  ELSE MulAdd(BigInt36(SubSeq(n, 1, Len(n) - 1)), CharValue(n[Len(n)]))

\* Mutant: the integer goes through a 64-bit value; its upper half is lost.
uuidOf64(n) ==
  LET x == BigInt36(n)
  IN [x EXCEPT !.limbs = [k \in 1..UuidLimbs |-> IF 2 * k <= UuidLimbs THEN 0 ELSE @[k]]]

\* _fetch: post_id = UUID(int=int(submission.id, 36))
uuidOf(n) == BigInt36(n)

\* The identifiers that are converted: every limb at one of its extremes, and the
\* low range 0..MaxSmallUuid.
LimbSamples == {0, 1, LimbBase - 1}
UuidInts ==
  [1..UuidLimbs -> LimbSamples]
    \cup {[k \in 1..UuidLimbs |-> IF k = UuidLimbs THEN x ELSE 0] : x \in 0..MaxSmallUuid}

UuidToNative ==
  /\ idpc = "u_start"
  /\ nativeId' = uuidNativeIdOf(idInt)
  /\ idpc' = "u_native"
  /\ UNCHANGED <<pc, lockVars, callers, cfg, st, postVars, scoreVars, scrapVars, lifeVars, persistVars,
                 idInt, backId, backInt>>

NativeToUuid ==
  /\ idpc = "u_native"
  /\ backInt' = uuidOf(nativeId)
  /\ idpc' = "u_back"
  /\ UNCHANGED <<pc, lockVars, callers, cfg, st, postVars, scoreVars, scrapVars, lifeVars, persistVars,
                 nativeId, idInt, backId>>

\* ---------------------------------------------------------- persistence
\* The value of an absent optional slot and of a null manifest entry.
None == "None"
\* The categories registered for a slot, and cls.post_type.
Cats == {"a", "b"}
PostType == "a"

OptionalSlots == {"score_modifier", "restriction"}
RequiredSlots == Slots \ OptionalSlots
\* The slots that carry a per-category parameter mapping.
ParamSlots == Slots \ {"processor"}
\* The fields of State that hold an object, in the order in which
\* _build_default_state and _load_saved_state evaluate them.
BuildOrder == <<"client", "subreddit">> \o SlotOrder
Fields == {BuildOrder[i] : i \in 1..Len(BuildOrder)}

\* The manifest keys of a slot.
TypeKey(s) ==
  CASE s = "processor" -> "processor_type"
    [] s = "poster" -> "poster_type"
    [] s = "scorer" -> "scorer_type"
    [] s = "score_modifier" -> "score_modifier_type"
    [] s = "scraper" -> "scraper_type"
    [] s = "restriction" -> "restriction_type"

ParamsKey(s) ==
  CASE s = "poster" -> "posters_params"
    [] s = "scorer" -> "scorers_params"
    [] s = "score_modifier" -> "score_modifiers_params"
    [] s = "scraper" -> "scrapers_params"
    [] s = "restriction" -> "restrictions_params"

TypeKeys == {TypeKey(s) : s \in Slots}
SlotOfKey(k) == CHOOSE s \in Slots : TypeKey(s) = k \/ (s \in ParamSlots /\ ParamsKey(s) = k)

\* dict.get(key, default)
Get(d, k, default) == IF k \in DOMAIN d THEN d[k] ELSE default

\* Two per-category parameter mappings: "P1" has parameters for category "a"
\* only, "P2" for both categories.
ParamMaps == {"P1", "P2"}
MapKeys(m) == IF m = "P1" THEN {"a"} ELSE IF m = "P2" THEN Cats ELSE {}
EmptyArgs == [map |-> "{}", category |-> "{}"]
\* mapping.get(category, {})
MapGet(m, c) == IF c \in MapKeys(m) THEN [map |-> m, category |-> c] ELSE EmptyArgs

\* A strategy instance (or the client, the subreddit): the category it was made
\* for, the parameters its factory was given, whether its saved state was read.
Instance(category, args, restored) ==
  [category |-> category, args |-> args, restored |-> restored]
NoInstance == Instance(None, EmptyArgs, FALSE)
Unset == Instance("unset", EmptyArgs, FALSE)

\* Params.<slot>_type (cls.post_type for the processor).
ConfType(c, s) == IF s = "processor" THEN PostType ELSE c.type[s]

\* _build_client / _build_subreddit
BuildField(f) == Instance(f, EmptyArgs, FALSE)

\* `if params.<slot>_type is None: return None` of the optional slots' builders:
\* _build_generic is reached otherwise.
BuildCalls(c, s) == ~(s \in OptionalSlots /\ c.type[s] = None)

\* _build_processor .. _build_restriction: nothing for an optional slot whose type
\* is None, otherwise _build_generic(category=type, **<slot>s_params.get(type, {})).
BuildInstance(c, s) ==
  IF ~BuildCalls(c, s) THEN NoInstance
  ELSE Instance(ConfType(c, s),
                IF s = "processor" THEN EmptyArgs ELSE MapGet(c.params[s], ConfType(c, s)),
                FALSE)

\* Mutant: the category always comes from the configuration.
LoadCategoryFromConfig(sd, c, s) == ConfType(c, s)

\* category = state_dict.get("<slot>_type", params.<slot>_type); for the optional
\* slots `if "<slot>_type" in state_dict: ... else: ...`, which is the same.
LoadCategory(sd, c, s) == Get(sd, TypeKey(s), ConfType(c, s))

\* Mutant: without the manifest's mapping the slot gets no parameters.
LoadParamsMapNoFallback(sd, c, s) == Get(sd, ParamsKey(s), "{}")

\* state_dict.get("<slot>s_params", params.<slot>s_params)
LoadParamsMap(sd, c, s) == Get(sd, ParamsKey(s), c.params[s])

LoadArgs(sd, c, s) ==
  IF s = "processor" THEN EmptyArgs
  ELSE MapGet(LoadParamsMap(sd, c, s), LoadCategory(sd, c, s))

\* Mutant: a None category is handed to the factory like any other.
IsAbsentNever(s, category) == FALSE

\* `if category is None: return None` of the optional slots' loaders.
IsAbsent(s, category) == s \in OptionalSlots /\ category = None

\* _load_generic(directory / <slot>, Class, category=..., **args): the instance of
\* that category built from those parameters, its state read from the slot's
\* sub-directory if there is one.
LoadGeneric(dirs, s, category, args) == Instance(category, args, s \in dirs)

\* The loader of slot s reaches _load_generic.
LoadCalls(sd, c, s) == ~IsAbsent(s, LoadCategory(sd, c, s))

\* _load_processor .. _load_restriction
LoadInstance(sd, c, dirs, s) ==
  IF ~LoadCalls(sd, c, s) THEN NoInstance
  ELSE LoadGeneric(dirs, s, LoadCategory(sd, c, s), LoadArgs(sd, c, s))

\* State(client=..., subreddit=..., processor=..., ..., restrictions_params=...)
MakeState(parts, params) == [made |-> TRUE, parts |-> parts, params |-> params]
NoState == [made |-> FALSE]

\* _create_state_dict
CreateStateDict(state) ==
  [k \in TypeKeys \cup {ParamsKey(s) : s \in ParamSlots} |->
     IF k \in TypeKeys THEN state.parts[SlotOfKey(k)].category
     ELSE state.params[SlotOfKey(k)]]

FreshLocals(sd) == [sd |-> sd, parts |-> [f \in Fields |-> Unset]]
EmptyDict == [k \in {} |-> None]

\* Mutant: the error of a step is swallowed and the field left empty.
StepResultSwallowed(ok, value) ==
  [raised |-> FALSE, value |-> IF ok THEN value ELSE NoInstance]

\* One awaited step of State(...)'s argument list: its value, or the error it
\* raised, which leaves the function.
StepResult(ok, value) ==
  [raised |-> ~ok, value |-> IF ok THEN value ELSE Unset]

\* The outcomes of a step: a step that awaits nothing (an absent optional slot)
\* cannot fail.
Outcomes(called) == IF called THEN BOOLEAN ELSE {TRUE}

\* The steps build and load share: the field's value is stored, the factory call
\* logged; after the last field State(...) is returned.
FieldStep(at, failed, fn, f, called, value, params) ==
  /\ ppc = at
  /\ \E ok \in Outcomes(called) :
       LET r == StepResult(ok, value)
           parts == [locals.parts EXCEPT ![f] = r.value]
           last == pstep + 1 = Len(BuildOrder)
       IN /\ calls' = IF ~called THEN calls
                      ELSE Append(calls, [fn |-> fn, slot |-> f, category |-> value.category,
                                          args |-> value.args])
          /\ IF r.raised
               THEN /\ ppc' = failed
                    /\ UNCHANGED <<locals, result, pstep>>
               ELSE /\ locals' = [locals EXCEPT !.parts = parts]
                    /\ pstep' = IF last THEN 0 ELSE pstep + 1
                    /\ ppc' = IF last THEN "done" ELSE at
                    /\ result' = IF last THEN MakeState(parts, params) ELSE result
  /\ UNCHANGED <<pc, lockVars, callers, cfg, st, postVars, scoreVars, scrapVars, lifeVars, idVars,
                 scenario, conf, savable, live, disk>>

\* _build_default_state: client, subreddit, then the six slots from Params.
BuildStep ==
  LET f == BuildOrder[pstep + 1]
  IN FieldStep("build", "build_failed",
               IF f \in Slots THEN "build_generic" ELSE f, f,
               IF f \in Slots THEN BuildCalls(conf, f) ELSE TRUE,
               IF f \in Slots THEN BuildInstance(conf, f) ELSE BuildField(f),
               conf.params)

\* _save_processor .. _save_restriction: what follows the save of a slot.
SaveAfterIgnoresFailure(ok, last) == IF last THEN "save_manifest" ELSE "save"

SaveAfter(ok, last) ==
  IF ~ok THEN "save_failed" ELSE IF last THEN "save_manifest" ELSE "save"

\* `if isinstance(state.<slot>, Savable)`
Persistable(s) == s \in savable /\ live.parts[s] # NoInstance

\* _save_state, one slot per step in SlotOrder: a Savable instance is saved into
\* its sub-directory (or its save raises), any other slot is passed over.
SaveSlot ==
  /\ ppc = "save"
  /\ LET s == SlotOrder[pstep + 1]
         last == pstep + 1 = Len(SlotOrder)
     IN \E ok \in IF Persistable(s) THEN BOOLEAN ELSE {TRUE} :
          /\ disk' = IF Persistable(s) /\ ok
                       THEN [disk EXCEPT !.dirs = @ \cup {s}, !.writes = Append(@, s)]
                       ELSE disk
          /\ ppc' = SaveAfter(ok, last)
          /\ pstep' = IF last THEN 0 ELSE pstep + 1
  /\ UNCHANGED <<pc, lockVars, callers, cfg, st, postVars, scoreVars, scrapVars, lifeVars, idVars,
                 scenario, conf, savable, live, locals, result, calls>>

\* state_dict = await cls._create_state_dict(state);
\* await cls._save_state_dict(state_dict, directory). Afterwards load is called.
SaveManifest ==
  /\ ppc = "save_manifest"
  /\ \E ok \in BOOLEAN :
       IF ok
         THEN /\ disk' = [disk EXCEPT !.manifest = CreateStateDict(live),
                                      !.hasManifest = TRUE,
                                      !.writes = Append(@, "manifest")]
              /\ ppc' = "load"
         ELSE /\ ppc' = "save_failed"
              /\ UNCHANGED disk
  /\ UNCHANGED <<pc, lockVars, callers, cfg, st, postVars, scoreVars, scrapVars, lifeVars, idVars,
                 scenario, conf, savable, live, locals, result, calls, pstep>>

\* _load_saved_state: state_dict = await self._load_state_dict(directory); a
\* directory without a manifest gives the empty mapping.
LoadManifest ==
  /\ ppc = "load"
  /\ \E ok \in BOOLEAN :
       IF ok
         THEN /\ locals' = FreshLocals(IF disk.hasManifest THEN disk.manifest ELSE EmptyDict)
              /\ ppc' = "loading"
         ELSE /\ ppc' = "load_failed"
              /\ UNCHANGED locals
  /\ UNCHANGED <<pc, lockVars, callers, cfg, st, postVars, scoreVars, scrapVars, lifeVars, idVars,
                 scenario, conf, savable, live, disk, result, calls, pstep>>

\* _load_saved_state: client, subreddit, then the six slots from the manifest
\* and Params.
LoadStep ==
  LET f == BuildOrder[pstep + 1]
  IN FieldStep("loading", "load_failed",
               IF f \in Slots THEN "load_generic" ELSE f, f,
               IF f \in Slots THEN LoadCalls(locals.sd, conf, f) ELSE TRUE,
               IF f \in Slots THEN LoadInstance(locals.sd, conf, disk.dirs, f)
               ELSE BuildField(f),
               [s \in ParamSlots |-> LoadParamsMap(locals.sd, conf, s)])

\* No build, save or load runs.
PersistOff ==
  /\ scenario = "off"
  /\ conf = <<>>
  /\ savable = {}
  /\ live = NoState
  /\ disk = <<>>
  /\ locals = <<>>
  /\ result = NoState
  /\ calls = <<>>
  /\ ppc = "off"
  /\ pstep = 0

\* ------------------------------------------------------- specifications
Configs == [restriction : BOOLEAN, modifier : BOOLEAN]

InitFace(c) ==
  /\ pc = [p \in Procs |-> "idle"]
  /\ readers = {}
  /\ writer = "none"
  /\ cfg = c
  /\ st = BuiltState(c.restriction, c.modifier)
  /\ postCalls = <<>>
  /\ postResult = "none"
  /\ scoreCalls = <<>>
  /\ scoreResult = "none"
  /\ scoreVal = <<>>
  /\ fetchCalls = <<>>
  /\ fetchVal = <<>>
  /\ scores = <<>>
  /\ source = <<>>
  /\ srcDone = FALSE
  /\ limit = [some |-> FALSE, n |-> 0]
  /\ emitted = <<>>
  /\ scrapResult = "none"
  /\ op = [w \in Writers |-> "none"]
  /\ slot = [w \in Writers |-> 0]

Init ==
  /\ \E c \in Configs : InitFace(c)
  /\ callers \in {C \in SUBSET Procs : Cardinality(C) = MaxCallers}
  /\ nativeId = <<>>
  /\ idInt = 0
  /\ backId = <<>>
  /\ backInt = <<>>
  /\ idpc = "off"
  /\ PersistOff

Next ==
  \/ PostCall \/ PostAcquire \/ PostToInternal \/ PostCheck \/ PostPoster
  \/ ScoreCall \/ ScoreAcquire \/ ScoreSubmission \/ ScoreScorer \/ ScoreModifier
  \/ ScrapCall \/ ScrapAcquire \/ ScrapScraper
  \/ FetchAcquire \/ FetchNext \/ FetchScorer \/ FetchModifier \/ FetchTranslate
  \/ ConsumerNext \/ ConsumerClose
  \/ \E w \in Writers :
       \/ LifeCall(w)
       \/ CleanupAcquire(w) \/ CleanupSlot(w) \/ CleanupAcquire2(w) \/ CleanupClose(w)
       \/ ResetAcquire(w) \/ ResetDiscard(w) \/ ResetBuild(w)
       \/ SaveAcquire(w) \/ SaveState(w)
       \/ LoadAcquire(w) \/ LoadDiscard(w) \/ LoadState(w)

Spec == Init /\ [][Next]_vars

\* The conversion on its own: every native id of up to MaxIdLen characters is
\* turned into an identifier and back.
InitId ==
  /\ InitFace([restriction |-> FALSE, modifier |-> FALSE])
  /\ callers = {}
  /\ nativeId \in NativeIds
  /\ idInt = 0
  /\ backId = <<>>
  /\ backInt = <<>>
  /\ idpc = "start"
  /\ PersistOff

NextId == ToIdentifier \/ ToNative

SpecId == InitId /\ [][NextId]_vars

\* The conversion the other way round, 128 bits wide: an identifier is turned
\* into a native id (as score does) and that native id into an identifier (as
\* _fetch does).
InitUuid ==
  /\ InitFace([restriction |-> FALSE, modifier |-> FALSE])
  /\ callers = {}
  /\ idInt \in UuidInts
  /\ nativeId = <<>>
  /\ backId = <<>>
  /\ backInt = <<>>
  /\ idpc = "u_start"
  /\ PersistOff

NextUuid == UuidToNative \/ NativeToUuid

SpecUuid == InitUuid /\ [][NextUuid]_vars

\* Build, save and load on their own. In one execution the slots of one set V vary
\* (MaxVaried of them); the other slots have the default configuration (category
\* "a", the optional slots None), no manifest keys, and in a saved State the
\* category "a" (the optional slots no instance).
VariedSets == {V \in SUBSET Slots : Cardinality(V) = MaxVaried}
DefaultType(s) == IF s \in OptionalSlots THEN None ELSE PostType
ConfTypes(s) ==
  IF s = "processor" THEN {PostType}
  ELSE IF s \in OptionalSlots THEN {None, "b"} ELSE Cats
StateTypes(s) == IF s \in OptionalSlots THEN Cats \cup {None} ELSE Cats
\* A manifest entry: a value, or "missing" for a key the manifest does not have.
ManifestTypes(s) == {"missing"} \cup StateTypes(s)
ManifestMaps(s) == IF s = "processor" THEN {"missing"} ELSE {"missing", "P1"}

\* Params: the configuration's mappings are all "P2".
ConfsFor(V) ==
  {[type |-> t, params |-> [s \in ParamSlots |-> "P2"]] :
     t \in {t \in [Slots -> Cats \cup {None}] :
              \A s \in Slots : t[s] \in IF s \in V THEN ConfTypes(s) ELSE {DefaultType(s)}}}

\* The States that are saved.
StatesFor(V) ==
  {MakeState([f \in Fields |->
                IF f \in Slots
                  THEN IF t[f] = None THEN NoInstance
                       ELSE Instance(t[f],
                                     IF f = "processor" THEN EmptyArgs ELSE MapGet(m[f], t[f]),
                                     FALSE)
                  ELSE BuildField(f)],
             m) :
     t \in {t \in [Slots -> Cats \cup {None}] :
              \A s \in Slots : t[s] \in IF s \in V THEN StateTypes(s) ELSE {DefaultType(s)}},
     m \in {m \in [ParamSlots -> ParamMaps] : \A s \in ParamSlots \ V : m[s] = "P1"}}

\* The manifests found on disk: any subset of the keys of the slots of V.
ManifestOf(tk, pk) ==
  [k \in {TypeKey(s) : s \in {s \in DOMAIN tk : tk[s] # "missing"}}
           \cup {ParamsKey(s) : s \in {s \in DOMAIN pk \cap ParamSlots : pk[s] # "missing"}} |->
     IF k \in TypeKeys THEN tk[SlotOfKey(k)] ELSE pk[SlotOfKey(k)]]

ManifestsFor(V) ==
  {ManifestOf(tk, pk) :
     tk \in {tk \in [V -> Cats \cup {None, "missing"}] : \A s \in V : tk[s] \in ManifestTypes(s)},
     pk \in {pk \in [V -> {"missing", "P1"}] : \A s \in V : pk[s] \in ManifestMaps(s)}}

SavableChoices == {{}, {"processor", "scorer", "restriction"}, Slots}
EmptyDisk == [manifest |-> EmptyDict, hasManifest |-> FALSE, dirs |-> {}, writes |-> <<>>]

InitPersist ==
  /\ InitFace([restriction |-> FALSE, modifier |-> FALSE])
  /\ callers = {}
  /\ nativeId = <<>>
  /\ idInt = 0
  /\ backId = <<>>
  /\ backInt = <<>>
  /\ idpc = "off"
  /\ scenario \in {"build", "save", "load"}
  /\ savable \in SavableChoices
  /\ \E V \in VariedSets :
       /\ conf \in ConfsFor(V)
       /\ CASE scenario = "build" -> live = NoState /\ disk = EmptyDisk
            [] scenario = "save" -> live \in StatesFor(V) /\ disk = EmptyDisk
            [] scenario = "load" ->
                 /\ live = NoState
                 /\ \E m \in ManifestsFor(V) :
                      disk = [manifest |-> m, hasManifest |-> DOMAIN m # {},
                              dirs |-> {s \in savable : Get(m, TypeKey(s), None) # None},
                              writes |-> <<>>]
  /\ locals = FreshLocals(EmptyDict)
  /\ result = NoState
  /\ calls = <<>>
  /\ ppc = scenario
  /\ pstep = 0

NextPersist == BuildStep \/ SaveSlot \/ SaveManifest \/ LoadManifest \/ LoadStep

SpecPersist == InitPersist /\ [][NextPersist]_vars

\* scrap with a consumer that keeps asking and calls that return: the event loop
\* runs every coroutine that can take a step, so the steps of the scrap pipeline
\* (lock acquisitions included, once the lock is free) and the steps of a
\* lifecycle operation inside its write-locked section are taken eventually.
\* scrap runs beside any one other coroutine.
ScrapSteps ==
  \/ ScrapAcquire \/ ScrapScraper
  \/ FetchAcquire \/ FetchNext \/ FetchScorer \/ FetchModifier \/ FetchTranslate
  \/ ConsumerNext

WriterSteps(w) ==
  \/ CleanupSlot(w) \/ CleanupClose(w)
  \/ ResetDiscard(w) \/ ResetBuild(w)
  \/ SaveState(w)
  \/ LoadDiscard(w) \/ LoadState(w)

InitFairScrap ==
  /\ \E c \in Configs : InitFace(c)
  /\ \E q \in Procs \ {"scrap"} : callers = {"scrap", q}
  /\ nativeId = <<>>
  /\ idInt = 0
  /\ backId = <<>>
  /\ backInt = <<>>
  /\ idpc = "off"
  /\ PersistOff

FairScrapSpec ==
  /\ InitFairScrap
  /\ [][Next]_vars
  /\ WF_vars(ScrapSteps)
  /\ \A w \in Writers : WF_vars(WriterSteps(w))

\* score and scrap side by side on one State that no lifecycle operation
\* replaces: the two ways a remote item is scored.
InitScoring ==
  /\ \E c \in Configs : InitFace(c)
  /\ callers = {"score", "scrap"}
  /\ nativeId = <<>>
  /\ idInt = 0
  /\ backId = <<>>
  /\ backInt = <<>>
  /\ idpc = "off"
  /\ PersistOff

NextScoring ==
  \/ ScoreCall \/ ScoreAcquire \/ ScoreSubmission \/ ScoreScorer \/ ScoreModifier
  \/ ScrapCall \/ ScrapAcquire \/ ScrapScraper
  \/ FetchAcquire \/ FetchNext \/ FetchScorer \/ FetchModifier \/ FetchTranslate
  \/ ConsumerNext \/ ConsumerClose

SpecScoring == InitScoring /\ [][NextScoring]_vars

\* ------------------------------------------------------------ properties
ReadLockPcs == {"p_lock", "s_lock", "x_lock", "f_lock"}
WriteLockPcs == {"c_lock", "c_lock2", "r_lock", "sv_lock", "ld_lock"}
\* Inside `async with read_lock()`: post, score, scrap's scraper acquisition, a
\* per-item step of _fetch (up to and including its yield).
ReadSectionPcs == {"p_internal", "p_check", "p_poster",
                   "s_submission", "s_scorer", "s_modifier",
                   "x_scraper", "f_next", "f_scorer", "f_modifier", "f_translate", "x_yield"}
\* Inside `async with write_lock()`: cleanup's slot release, cleanup's client
\* close, reset, save, load.
WriteSectionPcs == {"c_slots", "c_close", "r_discard", "r_build", "sv_state",
                    "ld_discard", "ld_state"}
InReadSection(p) == pc[p] \in ReadSectionPcs
InWriteSection(w) == pc[w] \in WriteSectionPcs

\* C1: a write-locked lifecycle section never overlaps a read-locked section nor
\* another write-locked section, and no reader is inside its section while the
\* State is part-way through being rebuilt by a writer.
C1_WritersExcludeReadersAndWriters ==
  /\ \A w \in Writers : InWriteSection(w) =>
       /\ \A p \in Readers : ~InReadSection(p)
       /\ \A v \in Writers \ {w} : ~InWriteSection(v)
  /\ \A p \in Readers : InReadSection(p) => st.built

\* C1 witness: a writer is inside its section, part-way through rebuilding the
\* State, while a reader waits at its read lock.
C1_Witness ==
  \E w \in Writers, p \in Readers :
    InWriteSection(w) /\ ~st.built /\ pc[p] \in ReadLockPcs

\* C2 (as claimed): while the scrap pipeline is suspended between items (a triple
\* was handed over, the consumer has not asked for the next one), it holds no
\* read lock.
C2_NoLockBetweenItems ==
  pc["scrap"] = "x_yield" => "scrap" \notin readers

\* C3 (as claimed): a lifecycle writer that wants the write lock waits at most for
\* the per-item step under way: when the stream is suspended between items and
\* nothing else holds the lock, the write lock can be granted, without the
\* consumer asking for another item or closing the stream.
C3_WriterWaitsOnlyForRunningStep ==
  \A w \in Writers :
    (/\ pc[w] \in WriteLockPcs
     /\ pc["scrap"] = "x_yield"
     /\ writer = "none"
     /\ readers \ {"scrap"} = {})
    => CanWrite

EmittedSet == {emitted[i] : i \in 1..Len(emitted)}
LastItem == source[Len(source)]
\* The source positions whose item translates.
Translatable == {i \in 1..Len(source) : ~TranslationRaises(source[i])}

RECURSIVE Ascending(_)
Ascending(S) ==
  IF S = {} THEN <<>>
  ELSE LET m == CHOOSE x \in S : \A y \in S : x <= y
       IN <<m>> \o Ascending(S \ {m})

\* C4: a scoring failure (scorer or score-modifier raising) aborts the stream at
\* once. An item whose scorer raises is the last one ever pulled, is never
\* emitted, and ends the stream with the error as soon as it is scored; an item
\* reaches translation and emission only after its scoring calls returned; and
\* once the error has surfaced the stream is over, the failing item the last one
\* pulled and not emitted, whether or not it would have failed translation too.
C4_ScoringFailureAborts ==
  /\ \A i \in 1..Len(source) : ScorerRaises(source[i]) =>
       /\ i = Len(source)
       /\ i \notin EmittedSet
       /\ pc["scrap"] = "f_scorer" \/ scrapResult = "ScoringFailure"
  /\ pc["scrap"] \in {"f_translate", "x_yield"} =>
       /\ ~ScorerRaises(LastItem)
       /\ ~(st.modifier /\ ModifierRaises(LastItem))
  /\ scrapResult = "ScoringFailure" =>
       /\ pc["scrap"] = "x_done"
       /\ "scrap" \notin readers
       /\ source # <<>>
       /\ ScorerRaises(LastItem) \/ ModifierRaises(LastItem)
       /\ Len(source) \notin EmittedSet

\* C4 witness: after one emitted item, an item that fails scoring and would fail
\* translation as well has ended the stream with the scoring error.
C4_Witness ==
  /\ scrapResult = "ScoringFailure"
  /\ source = <<"ok", "bad_both">>
  /\ emitted = <<1>>

\* C5: scrap without a limit over a finished source of length L in which exactly
\* item k fails translation and no item fails scoring (the consumer reads to the
\* end, the scraper's sequence does not fail): the stream ends without an error
\* at the end of the source, having emitted exactly the other L-1 items in order.
C5_TranslationFailureSkipsOneItem ==
  (/\ pc["scrap"] = "x_done"
   /\ ~limit.some
   /\ scrapResult \notin {"closed", "RemoteFailure"}
   /\ \A i \in 1..Len(source) : source[i] \in {"ok", "bad_tr"}
   /\ Cardinality({i \in 1..Len(source) : source[i] = "bad_tr"}) = 1)
  => /\ scrapResult = "end"
     /\ srcDone
     /\ Len(emitted) = Len(source) - 1
     /\ emitted = Ascending({i \in 1..Len(source) : source[i] = "ok"})

\* C5 witness: the first of two items failed translation, the second was emitted
\* and the stream ended at the end of the source.
C5_Witness ==
  /\ pc["scrap"] = "x_done"
  /\ ~limit.some
  /\ srcDone
  /\ source = <<"bad_tr", "ok">>
  /\ emitted = <<2>>

\* C6: scrap(limit=N) never emits more than N triples; every emitted triple is a
\* pulled source item that translated; the emitted positions are strictly
\* increasing (source order, no item twice).
C6_AtMostLimitInSourceOrder ==
  /\ limit.some => Len(emitted) <= limit.n
  /\ \A i \in 1..Len(emitted) : emitted[i] \in Translatable
  /\ \A i \in 1..Len(emitted) : \A j \in 1..Len(emitted) : i < j => emitted[i] < emitted[j]
  /\ Len(emitted) <= Cardinality(Translatable)

\* C6 witness: a stream with the largest limit has emitted that many items while a
\* reset ran to its end.
C6_Witness ==
  /\ limit.some /\ limit.n = MaxLimit
  /\ Len(emitted) = limit.n
  /\ \E w \in Writers : op[w] = "reset" /\ pc[w] = "w_done"

\* C7: skipped items do not count toward the limit. A scrap(limit=N) that ends
\* without an error ends either at the end of a source with fewer than N
\* translatable items (all of them emitted), or, the source holding at least N of
\* them, having emitted exactly its first N translatable items and pulled
\* nothing beyond the N-th.
C7_LimitCountsEmittedOnly ==
  (pc["scrap"] = "x_done" /\ limit.some /\ scrapResult = "end") =>
    IF srcDone
      THEN /\ Cardinality(Translatable) < limit.n
           /\ emitted = Ascending(Translatable)
      ELSE /\ Cardinality(Translatable) >= limit.n
           /\ Len(emitted) = limit.n
           /\ emitted = SubSeq(Ascending(Translatable), 1, limit.n)
           /\ IF limit.n = 0 THEN source = <<>> ELSE Len(source) = emitted[limit.n]

\* C7 witness: with limit 1 an untranslatable item was skipped, the next item
\* emitted, and the stream stopped there.
C7_Witness ==
  /\ pc["scrap"] = "x_done"
  /\ limit.some /\ limit.n = 1
  /\ scrapResult = "end"
  /\ ~srcDone
  /\ source = <<"bad_tr", "ok">>
  /\ emitted = <<2>>

\* C8: once the restriction's check has returned false in a call of post, the
\* poster is not invoked in that call, the call has failed with the rejection
\* error and its read lock is released.
C8_RejectedNeverPosts ==
  \A i \in 1..Len(postCalls) : postCalls[i] = Call("check", "false") =>
    /\ \A j \in 1..Len(postCalls) : postCalls[j].fn # "post"
    /\ pc["post"] = "p_done"
    /\ postResult = "Rejected"
    /\ "post" \notin readers

\* C8 witness: a post was rejected by the active restriction.
C8_Witness ==
  /\ postCalls = <<Call("to_internal", "ok"), Call("check", "false")>>
  /\ postResult = "Rejected"

Succeeded(c) == c.out \in {"ok", "true"}

\* C9: post calls the content-processor first, then the restriction (when one is
\* active), then the poster: every call follows a call that succeeded, the check
\* comes second if at all, the poster comes last and at most once, and with an
\* active restriction the poster is reached only after the check returned true.
\* A failed translation ends the call with that error and nothing else is called.
C9_PostCallOrder ==
  /\ Len(postCalls) <= 3
  /\ \A i \in 1..Len(postCalls) :
       /\ (i = 1) <=> (postCalls[i].fn = "to_internal")
       /\ i > 1 => Succeeded(postCalls[i - 1])
       /\ postCalls[i].fn = "check" => i = 2
       /\ postCalls[i].fn = "post" => i = Len(postCalls)
       /\ i = 3 => postCalls[i].fn = "post"
  /\ (pc["post"] = "p_poster" /\ st.restriction) =>
       /\ Len(postCalls) = 2
       /\ postCalls[2] = Call("check", "true")
  /\ (postCalls # <<>> /\ ~Succeeded(postCalls[1])) =>
       /\ Len(postCalls) = 1
       /\ postResult = "UnsupportedContent"
       /\ pc["post"] = "p_done"

\* C9 witness: a post went through translation, an allowing check and the poster.
C9_Witness ==
  postCalls = <<Call("to_internal", "ok"), Call("check", "true"), Call("post", "ok")>>

\* A native id as the remote service writes it: no leading zero (apart from the
\* id "0" itself).
Canonical(n) == Len(n) = 1 \/ n[1] # "0"

\* C10 (as claimed): every non-empty base-36 string n is returned unchanged by
\* the round trip n -> UUID(int=int(n, 36)) -> base_repr(id.int, 36).lower().
C10_RoundTripEveryNativeId ==
  idpc = "native" => backId = nativeId

\* C10 (amended): every non-empty lower-case base-36 string without a leading
\* zero (or the string "0") is returned unchanged by the round trip.
C10_RoundTripCanonicalNativeId ==
  (idpc = "native" /\ Canonical(nativeId)) => backId = nativeId

\* C10 witness: a two-character id with letter digits went round unchanged.
C10_Witness ==
  /\ idpc = "native"
  /\ nativeId = <<"z", "a">>
  /\ backId = nativeId

\* What cleanup() leaves behind: every present slot with a cleanup capability
\* released, the client closed.
CleanedUp ==
  /\ st.built
  /\ st.closed
  /\ st.released = {s \in Cleanable : Present(s)}

CleanupUnderWay(w) ==
  /\ op[w] = "cleanup"
  /\ \/ pc[w] = "c_slots" /\ slot[w] > 0
     \/ pc[w] \in {"c_lock2", "c_close"}

\* C15 (as claimed): cleanup() is one exclusive write-locked operation. From its
\* first slot release until the client is closed no read-locked operation and no
\* other writer is inside its section, and the client that is closed belongs to
\* the State whose cleanable slots were all released.
C15_CleanupIsOneExclusiveSection ==
  \A w \in Writers :
    /\ CleanupUnderWay(w) =>
         /\ \A p \in Readers : ~InReadSection(p)
         /\ \A v \in Writers \ {w} : ~InWriteSection(v)
    /\ (op[w] = "cleanup" /\ pc[w] = "c_close") =>
         st.released = {s \in Cleanable : Present(s)}

ReadDonePcs == {"p_done", "s_done", "x_done"}

\* C16: the read lock is held exactly inside the read-locked sections. Whenever
\* post, score, scrap's scraper acquisition or a per-item step has ended (in an
\* error, at the end of the source, or normally), its read lock is released by the
\* time the outcome is with the caller, and a coroutine waiting for the lock or
\* not yet started holds none; so with every reader ended a writer can acquire
\* the write lock.
C16_EveryExitReleasesReadLock ==
  /\ \A p \in Readers : (p \in readers) <=> InReadSection(p)
  /\ \A p \in Readers : pc[p] \in ReadDonePcs => p \notin readers
  /\ postResult # "none" => pc["post"] = "p_done"
  /\ scoreResult # "none" => pc["score"] = "s_done"
  /\ scrapResult # "none" => pc["scrap"] = "x_done"
  /\ readers \subseteq Readers
  /\ ((\A p \in Readers \cap callers : pc[p] \in ReadDonePcs) /\ writer = "none") => CanWrite

\* C16 witness: score ended in an error raised by one of its calls, and afterwards
\* a writer acquired the write lock.
C16_Witness ==
  /\ pc["score"] = "s_done"
  /\ scoreResult = "RemoteFailure"
  /\ writer # "none"

\* A step in which post, score or the scrap pipeline invokes a strategy instance
\* or the client of the State.
InvokesState ==
  \/ postCalls' # postCalls
  \/ scoreCalls' # scoreCalls
  \/ /\ pc["scrap"] \in {"x_scraper", "f_next", "f_scorer", "f_modifier", "f_translate"}
     /\ pc'["scrap"] # pc["scrap"]

\* C17 (as claimed): CleanedUp is terminal. Once cleanup() has completed (the
\* State's slots are released and its client closed), no step of post, score,
\* scrap or of a stream in progress invokes a strategy instance or the client of
\* that State.
C17_NoUseAfterCleanup ==
  [][CleanedUp => ~InvokesState]_vars

\* 2^128 - 1 in base 36.
MaxUuidNativeId ==
  <<"f", "5", "l", "x", "x", "1", "z", "z", "5", "p", "n", "o", "r", "y", "n", "q", "g",
    "l", "h", "z", "m", "s", "p", "3", "3">>

\* C11: for every 128-bit identifier u, the native id base_repr(u.int, 36).lower()
\* is a non-empty string of lower-case base-36 digits, no longer than that of
\* 2^128 - 1, and UUID(int=int(native, 36)) is exactly u: the value read back is
\* within the 128 bits (no overflow) and no bit of u is lost.
C11_RoundTripEveryUuid ==
  /\ idpc \in {"u_native", "u_back"} =>
       /\ nativeId # <<>>
       /\ Len(nativeId) <= Len(MaxUuidNativeId)
       /\ \A i \in 1..Len(nativeId) : nativeId[i] \in Chars36
  /\ idpc = "u_back" =>
       /\ backInt.valid
       /\ backInt.limbs = idInt

\* C11 witness: the largest identifier, 2^128 - 1, went round unchanged.
C11_Witness ==
  /\ idpc = "u_back"
  /\ idInt = MaxUuid
  /\ nativeId = MaxUuidNativeId
  /\ backInt = [limbs |-> MaxUuid, valid |-> TRUE]

AsBuildDefault(s) ==
  /\ result.parts[s].category = BuildInstance(conf, s).category
  /\ result.parts[s].args = BuildInstance(conf, s).args

\* C13 (as claimed): for each slot, when the manifest is absent or empty or lacks
\* the slot's category key, load resolves the slot's category and factory
\* parameters exactly as _build_default_state would from the configuration,
\* whatever other keys the manifest has.
C13_FallbackWhenCategoryKeyMissing ==
  (scenario = "load" /\ ppc = "done") =>
    \A s \in ParamSlots : TypeKey(s) \notin DOMAIN disk.manifest => AsBuildDefault(s)

\* C13 (amended): for each slot, when the manifest is absent or empty or lacks
\* both the slot's category key and the slot's parameter-mapping key, load
\* resolves the slot's category and factory parameters exactly as
\* _build_default_state would, whatever keys of other slots the manifest has;
\* for the processor, which has no parameters, the category key alone decides.
C13_FallbackWhenSlotKeysMissing ==
  (scenario = "load" /\ ppc = "done") =>
    /\ \A s \in ParamSlots :
         (TypeKey(s) \notin DOMAIN disk.manifest /\ ParamsKey(s) \notin DOMAIN disk.manifest)
           => AsBuildDefault(s)
    /\ TypeKey("processor") \notin DOMAIN disk.manifest => AsBuildDefault("processor")
    /\ DOMAIN disk.manifest = {} =>
         /\ \A s \in Slots : AsBuildDefault(s)
         /\ result.params = conf.params

\* C13 witness: a manifest that says nothing about the poster but names the
\* scorer's category and mapping was loaded; the poster has the category and the
\* parameters of the configuration.
C13_Witness ==
  /\ scenario = "load"
  /\ ppc = "done"
  /\ DOMAIN disk.manifest = {"scorer_type", "scorers_params"}
  /\ conf.type["poster"] = "b"
  /\ result.parts["poster"] = Instance("b", MapGet("P2", "b"), FALSE)

\* The fields that every State must hold.
RequiredFields == {"client", "subreddit"} \cup RequiredSlots

\* C18: a State comes out of _build_default_state / _load_saved_state only when
\* every step has succeeded. After a failed step there is no State; a State that
\* was returned has a client, a subreddit and the four required slots, and each
\* optional slot either an instance or none.
C18_NoPartialState ==
  /\ ppc \in {"build_failed", "load_failed"} => ~result.made
  /\ result.made =>
       /\ ppc = "done"
       /\ \A f \in RequiredFields : result.parts[f] \notin {NoInstance, Unset}
       /\ \A f \in OptionalSlots : result.parts[f] # Unset
       /\ \A i \in 1..Len(calls) : locals.parts[calls[i].slot] # Unset

\* C18 witness: load failed at the scorer, after the client, the subreddit, the
\* processor and the poster had been made; no State was returned.
C18_Witness ==
  /\ ppc = "load_failed"
  /\ locals.parts["poster"] # Unset
  /\ locals.parts["scorer"] = Unset
  /\ calls # <<>> /\ calls[Len(calls)].slot = "scorer"
  /\ ~result.made

RECURSIVE SavedUpTo(_)
SavedUpTo(k) ==
  IF k = 0 THEN <<>>
  ELSE IF Persistable(SlotOrder[k]) THEN Append(SavedUpTo(k - 1), SlotOrder[k])
       ELSE SavedUpTo(k - 1)

\* C20: _save_state saves the persistable slots in the order processor, poster,
\* scorer, score_modifier, scraper, restriction, passing over the slots that are
\* not persistable or hold no instance, and writes the manifest only after the
\* last of them; when a slot's save fails, the later slots are not saved and the
\* manifest is not written.
C20_ManifestAfterAllSlots ==
  scenario = "save" =>
    /\ ppc = "save" => disk.writes = SavedUpTo(pstep)
    /\ ppc = "save_manifest" => disk.writes = SavedUpTo(Len(SlotOrder))
    /\ disk.hasManifest <=> (disk.writes # <<>> /\ disk.writes[Len(disk.writes)] = "manifest")
    /\ disk.hasManifest =>
         /\ disk.writes = Append(SavedUpTo(Len(SlotOrder)), "manifest")
         /\ disk.manifest = CreateStateDict(live)
    /\ ppc = "save_failed" =>
         /\ ~disk.hasManifest
         /\ \E k \in 0..Len(SlotOrder) : disk.writes = SavedUpTo(k)
    /\ disk.dirs = {s \in Slots : \E i \in 1..Len(disk.writes) : disk.writes[i] = s}

\* C20 witness: with every slot persistable, the save of the scorer failed after
\* the processor and the poster had been saved; no manifest was written.
C20_Witness ==
  /\ scenario = "save"
  /\ ppc = "save_failed"
  /\ savable = Slots
  /\ disk.writes = <<"processor", "poster">>
  /\ ~disk.hasManifest

\* The scoring calls made on an item when they all return, and the score they
\* give, on a State with or without an active score-modifier.
ScoringCalls(active) ==
  IF active THEN <<Call("score", "ok"), Call("modify", "ok")>> ELSE <<Call("score", "ok")>>
ScoreOf(active) == IF active THEN <<"score", "modify">> ELSE <<"score">>

\* C21: on the same State, score(id) and the per-item step of _fetch score an
\* item in the same way. Both call the scorer exactly once, first, and then the
\* score-modifier exactly once if and only if one is active; the score that
\* score returns and the score in every emitted triple are that result: the
\* scorer's raw result without a modifier, the modifier's result otherwise.
C21_SameScoring ==
  /\ scoreResult = "ok" =>
       /\ scoreCalls = <<Call("submission", "ok")>> \o ScoringCalls(st.modifier)
       /\ scoreVal = ScoreOf(st.modifier)
  /\ pc["scrap"] \in {"f_translate", "x_yield"} =>
       /\ fetchCalls = ScoringCalls(st.modifier)
       /\ fetchVal = ScoreOf(st.modifier)
  /\ Len(scores) = Len(emitted)
  /\ \A i \in 1..Len(scores) : scores[i] = ScoreOf(st.modifier)
  /\ \A i \in 1..Len(scoreCalls) : scoreCalls[i].fn = "modify" => (st.modifier /\ i = 3)
  /\ \A i \in 1..Len(fetchCalls) :
       /\ fetchCalls[i].fn = "score" <=> i = 1
       /\ fetchCalls[i].fn = "modify" => st.modifier
  /\ Len(fetchCalls) <= Len(ScoringCalls(st.modifier))

\* C21 witness: with an active score-modifier, score has returned and scrap has
\* emitted a triple; both scores are the modifier's result of the scorer's result.
C21_Witness ==
  /\ st.modifier
  /\ scoreResult = "ok"
  /\ scores = <<ScoreOf(TRUE)>>
  /\ scoreVal = scores[1]

\* One turn of _fetch's loop: the per-item step is entered only by a pull, which
\* adds one item to what was pulled; no other step pulls; a skipped or emitted
\* item is never gone through again.
OneItemPerTurn ==
  /\ (pc'["scrap"] = "f_scorer" /\ pc["scrap"] # "f_scorer") =>
       (pc["scrap"] = "f_next" /\ Len(source') = Len(source) + 1)
  /\ (pc["scrap"] # "f_next") => (source' = source)
  /\ (pc["scrap"] \in {"f_translate", "x_yield"} /\ pc'["scrap"] # pc["scrap"]) =>
       (pc'["scrap"] \in {"x_yield", "f_lock", "x_done"})

\* C22: with a consumer that keeps asking and calls that return, a scrap that was
\* called finishes: at the end of the (finite) source, at its limit, or with the
\* error of a call. Every turn of _fetch's loop pulls exactly one source item, so
\* skipped items cannot keep the loop going on a finite source.
C22_ScrapTerminates ==
  /\ (pc["scrap"] # "idle") ~> (pc["scrap"] = "x_done")
  /\ [](pc["scrap"] = "x_done" =>
          scrapResult \in {"end", "ScoringFailure", "RemoteFailure", "closed"})
  /\ [][OneItemPerTurn]_vars

\* C22 witness: both items of a source failed translation and were skipped; the
\* stream, without a limit, ended at the end of the source having emitted nothing.
C22_Witness ==
  /\ pc["scrap"] = "x_done"
  /\ scrapResult = "end"
  /\ ~limit.some
  /\ srcDone
  /\ source = <<"bad_tr", "bad_tr">>
  /\ emitted = <<>>

====
